---- MODULE Spec2Model ----
(***************************************************************************)
(* Model of potential1D.py: the one-dimensional model potentials, their    *)
(* input normalisation, their constructors and their public operations     *)
(* ene (energy), dhdpos (forceTerm) and dhdlam (lambdaDerivative).          *)
(*                                                                         *)
(* Python values are records [t, m, e, xs]:                                *)
(*   t = "int"    the integer m                                            *)
(*   t = "float"  the exact dyadic rational m / 2^e (m odd when e > 0)     *)
(*   t = "str"    the string with characters xs                            *)
(*   t = "list" / "tuple"  the items xs                                    *)
(*   t = "None"                                                            *)
(*   t = "err"    a raised exception, xs = <<name>>                        *)
(*   t in SymTags a float whose value is the uninterpreted term t(xs),     *)
(*                used where the result is not a dyadic rational (log,     *)
(*                exp, the gas constant, a division that is not exact)     *)
(***************************************************************************)
EXTENDS Integers, Sequences, FiniteSets, TLC

VARIABLES heap, last, defaulted

vars == <<heap, last, defaulted>>

----------------------------------------------------------------------------
(* Python values *)

Val(t, m, e, xs) == [t |-> t, m |-> m, e |-> e, xs |-> xs]

RECURSIVE Pow2(_)
Pow2(k) == IF k <= 0 THEN 1 ELSE 2 * Pow2(k - 1)

RECURSIVE Norm(_, _)
Norm(m, e) ==
  IF m = 0 THEN <<0, 0>>
  ELSE IF e > 0 /\ m % 2 = 0 THEN Norm(m \div 2, e - 1)
  ELSE <<m, e>>

PyInt(n) == Val("int", n, 0, <<>>)

PyFloat(m, e) == LET n == Norm(m, e) IN Val("float", n[1], n[2], <<>>)

PyStr(chars) == Val("str", 0, 0, chars)

PyList(items) == Val("list", 0, 0, items)

PyTuple(items) == Val("tuple", 0, 0, items)

PyNone == Val("None", 0, 0, <<>>)

Err(name) == Val("err", 0, 0, <<name>>)

SymTags == {"add", "sub", "mul", "div", "neg", "pow", "exp", "log", "lse",
            "gas_constant"}

Sym(op, args) == Val(op, 0, 0, args)

IsErr(x) == x.t = "err"

IsFloat(x) == x.t = "float" \/ x.t \in SymTags

IsNum(x) == x.t = "int" \/ IsFloat(x)

IsConc(x) == x.t = "int" \/ x.t = "float"

IsSeq(x) == x.t \in {"list", "tuple", "str"}

----------------------------------------------------------------------------
(* Python arithmetic.  Operands are evaluated left to right, and the first *)
(* exception raised is the result.                                         *)

MaxOf(a, b) == IF a >= b THEN a ELSE b

MinOf(a, b) == IF a <= b THEN a ELSE b

AddC(a, b) ==
  IF a.t = "int" /\ b.t = "int" THEN PyInt(a.m + b.m)
  ELSE LET e == MaxOf(a.e, b.e)
       IN PyFloat(a.m * Pow2(e - a.e) + b.m * Pow2(e - b.e), e)

NegC(a) == IF a.t = "int" THEN PyInt(0 - a.m) ELSE PyFloat(0 - a.m, a.e)

MulC(a, b) ==
  IF a.t = "int" /\ b.t = "int" THEN PyInt(a.m * b.m)
  ELSE PyFloat(a.m * b.m, a.e + b.e)

RECURSIVE Rep(_, _)
Rep(xs, n) == IF n <= 0 THEN <<>> ELSE xs \o Rep(xs, n - 1)

Neg(a) ==
  IF IsErr(a) THEN a
  ELSE IF ~IsNum(a) THEN Err("TypeError")
  ELSE IF IsConc(a) THEN NegC(a)
  ELSE Sym("neg", <<a>>)

Add(a, b) ==
  IF IsErr(a) THEN a
  ELSE IF IsErr(b) THEN b
  ELSE IF ~(IsNum(a) /\ IsNum(b)) THEN Err("TypeError")
  ELSE IF IsConc(a) /\ IsConc(b) THEN AddC(a, b)
  ELSE IF IsConc(a) /\ a.m = 0 THEN b
  ELSE Sym("add", <<a, b>>)

Sub(a, b) ==
  IF IsErr(a) THEN a
  ELSE IF IsErr(b) THEN b
  ELSE IF ~(IsNum(a) /\ IsNum(b)) THEN Err("TypeError")
  ELSE IF IsConc(a) /\ IsConc(b) THEN AddC(a, NegC(b))
  ELSE Sym("sub", <<a, b>>)

Mul(a, b) ==
  IF IsErr(a) THEN a
  ELSE IF IsErr(b) THEN b
  ELSE IF IsNum(a) /\ IsNum(b)
       THEN IF IsConc(a) /\ IsConc(b) THEN MulC(a, b)
            ELSE IF (IsConc(a) /\ a.m = 0) \/ (IsConc(b) /\ b.m = 0)
                 THEN PyFloat(0, 0)
            ELSE Sym("mul", <<a, b>>)
  ELSE IF a.t = "int" /\ IsSeq(b) THEN Val(b.t, 0, 0, Rep(b.xs, a.m))
  ELSE IF IsSeq(a) /\ b.t = "int" THEN Val(a.t, 0, 0, Rep(a.xs, b.m))
  ELSE Err("TypeError")

Abs(n) == IF n < 0 THEN 0 - n ELSE n

Sgn(n) == IF n < 0 THEN -1 ELSE 1

RECURSIVE IsPow2(_)
IsPow2(n) == n = 1 \/ (n > 1 /\ n % 2 = 0 /\ IsPow2(n \div 2))

RECURSIVE Log2(_)
Log2(n) == IF n <= 1 THEN 0 ELSE 1 + Log2(n \div 2)

\* true division; exact when the divisor is a power of two
Div(a, b) ==
  IF IsErr(a) THEN a
  ELSE IF IsErr(b) THEN b
  ELSE IF ~(IsNum(a) /\ IsNum(b)) THEN Err("TypeError")
  ELSE IF IsConc(b) /\ b.m = 0 THEN Err("ZeroDivisionError")
  ELSE IF IsConc(a) /\ IsConc(b) /\ IsPow2(Abs(b.m))
       THEN PyFloat(Sgn(b.m) * a.m * Pow2(b.e), a.e + Log2(Abs(b.m)))
  ELSE IF IsConc(a) /\ a.m = 0 THEN PyFloat(0, 0)
  ELSE Sym("div", <<a, b>>)

RECURSIVE PowC(_, _)
PowC(a, n) == IF n <= 1 THEN a ELSE MulC(PowC(a, n - 1), a)

\* a ** n for a literal exponent n >= 1
Pow(a, n) ==
  IF IsErr(a) THEN a
  ELSE IF ~IsNum(a) THEN Err("TypeError")
  ELSE IF IsConc(a) THEN PowC(a, n)
  ELSE Sym("pow", <<a, PyInt(n)>>)

\* math.exp / np.exp and math.log / np.log of a number
Exp(a) ==
  IF IsErr(a) THEN a
  ELSE IF ~IsNum(a) THEN Err("TypeError")
  ELSE Sym("exp", <<a>>)

Log(a) ==
  IF IsErr(a) THEN a
  ELSE IF ~IsNum(a) THEN Err("TypeError")
  ELSE Sym("log", <<a>>)

RECURSIVE SumFrom(_, _)
SumFrom(acc, items) ==
  IF items = <<>> THEN acc ELSE SumFrom(Add(acc, Head(items)), Tail(items))

\* builtin sum(items)
Sum(items) == SumFrom(PyInt(0), items)

----------------------------------------------------------------------------
(* Builtins float() and list() on the modelled values *)

Digits == <<"0", "1", "2", "3", "4", "5", "6", "7", "8", "9">>

IsDigit(c) == \E i \in 1..10 : Digits[i] = c

DigitVal(c) == (CHOOSE i \in 1..10 : Digits[i] = c) - 1

RECURSIVE DigitsVal(_)
DigitsVal(cs) ==
  IF cs = <<>> THEN 0
  ELSE 10 * DigitsVal(SubSeq(cs, 1, Len(cs) - 1)) + DigitVal(cs[Len(cs)])

ParseFloat(cs) ==
  LET signed == cs # <<>> /\ cs[1] \in {"-", "+"}
      body == IF signed THEN Tail(cs) ELSE cs
      sgn == IF signed /\ cs[1] = "-" THEN -1 ELSE 1
  IN IF body = <<>> \/ (\E i \in 1..Len(body) : ~IsDigit(body[i]))
     THEN Err("ValueError")
     ELSE PyFloat(sgn * DigitsVal(body), 0)

BuiltinFloat(x) ==
  IF IsErr(x) THEN x
  ELSE IF x.t = "int" THEN PyFloat(x.m, 0)
  ELSE IF IsFloat(x) THEN x
  ELSE IF x.t = "str" THEN ParseFloat(x.xs)
  ELSE Err("TypeError")

BuiltinList(x) ==
  IF IsErr(x) THEN x
  ELSE IF x.t \in {"list", "tuple"} THEN PyList(x.xs)
  ELSE IF x.t = "str" THEN PyList([i \in 1..Len(x.xs) |-> PyStr(<<x.xs[i]>>)])
  ELSE Err("TypeError")

\* A list comprehension [e for x in xs], items being the values of e in
\* order: the first exception raised ends it, else it is the list of them
Collect(items) ==
  LET xs == SubSeq(items, 1, Len(items))
  IN IF \E i \in 1..Len(xs) : IsErr(xs[i])
     THEN xs[CHOOSE i \in 1..Len(xs) :
               IsErr(xs[i]) /\ \A j \in 1..(i - 1) : ~IsErr(xs[j])]
     ELSE PyList(xs)

\* list(map(float, items))
MapFloat(items) == Collect([i \in 1..Len(items) |-> BuiltinFloat(items[i])])

----------------------------------------------------------------------------
(* potential._check_positions_type *)

\* a normalisation that converts the items of a built-in list as well
check_positions_type_converting(positions) ==
  IF IsFloat(positions) \/ positions.t = "int" \/ positions.t = "str"
  THEN LET f == BuiltinFloat(positions)
       IN IF IsErr(f) THEN f ELSE PyList(<<f>>)
  ELSE LET l == BuiltinList(positions)
       IN IF IsErr(l) THEN l ELSE MapFloat(l.xs)

check_positions_type(positions) ==
  IF IsFloat(positions) \/ positions.t = "int" \/ positions.t = "str"
  THEN LET f == BuiltinFloat(positions)
       IN IF IsErr(f) THEN f ELSE PyList(<<f>>)
  ELSE IF positions.t # "list"
  THEN LET l == BuiltinList(positions)
       IN IF IsErr(l) THEN l ELSE MapFloat(l.xs)
  ELSE positions

----------------------------------------------------------------------------
(* The potentials.  heap is the sequence of the objects built so far; an   *)
(* object is referred to by its index.  The public operations take the     *)
(* heap h, the receiver id and the positional arguments args.              *)

Absent == Val("absent", 0, 0, <<>>)

\* a parameter declared lam:float=1.0
LamOrDefault(lam) == IF lam.t = "absent" THEN PyFloat(1, 0) ELSE lam

IsPerturbed(o) == o.cls = "pertHarmonicOsc1D"

RECURSIVE ene(_, _, _), dhdpos(_, _, _), calculate_energies(_, _, _, _),
          calculate_dhdpos(_, _, _, _), envelopeLoop(_, _, _, _, _)

harmonicOsc1D_calculate_energies(o, positions) ==
  Collect([i \in 1..Len(positions.xs) |->
             LET pos == positions.xs[i]
             IN Sub(Mul(Mul(PyFloat(1, 1), o.fc), Pow(Sub(pos, o.x_shift), 2)),
                    o.y_shift)])

harmonicOsc1D_calculate_dhdpos(o, positions) ==
  Collect([i \in 1..Len(positions.xs) |->
             LET pos == positions.xs[i]
             IN Mul(o.fc, Sub(pos, o.x_shift))])

doubleWellPot1D_calculate_energies(o, positions) ==
  Collect([i \in 1..Len(positions.xs) |->
             LET pos == positions.xs[i]
             IN Mul(Div(o.Vmax, Pow(o.b, 4)),
                    Pow(Sub(Pow(Sub(pos, Div(o.a, PyInt(2))), 2),
                            Pow(o.b, 2)),
                        2))])

doubleWellPot1D_calculate_dhdpos(o, positions) ==
  Collect([i \in 1..Len(positions.xs) |->
             LET pos == positions.xs[i]
             IN Mul(Mul(Div(Mul(PyInt(4), o.Vmax), Pow(o.b, 4)),
                        Sub(Pow(Sub(pos, Div(o.a, PyInt(2))), 2),
                            Pow(o.b, 2))),
                    Sub(pos, Div(o.a, PyInt(2))))])

pertHarmonicOsc1D_calculate_energies(o, positions, lamArg) ==
  LET lam == LamOrDefault(lamArg)
  IN Collect([i \in 1..Len(positions.xs) |->
                LET pos == positions.xs[i]
                IN Mul(Mul(Mul(PyFloat(1, 1),
                               Add(PyFloat(1, 0), Mul(o.alpha, lam))),
                           o.fc),
                       Pow(Sub(pos, Mul(o.gamma, lam)), 2))])

pertHarmonicOsc1D_calculate_dhdpos(o, positions, lamArg) ==
  LET lam == LamOrDefault(lamArg)
  IN Collect([i \in 1..Len(positions.xs) |->
                LET pos == positions.xs[i]
                IN Mul(Mul(Add(PyFloat(1, 0), Mul(o.alpha, lam)), o.fc),
                       Sub(pos, Mul(o.gamma, lam)))])

pertHarmonicOsc1D_calculate_dhdlam(o, positions, lamArg) ==
  LET lam == LamOrDefault(lamArg)
  IN Collect([i \in 1..Len(positions.xs) |->
                LET pos == positions.xs[i]
                IN Sub(Mul(Mul(Mul(PyFloat(1, 1), o.alpha), o.fc),
                           Pow(Sub(pos, Mul(o.gamma, lam)), 2)),
                       Mul(Mul(Mul(Add(PyFloat(1, 0), Mul(o.alpha, lam)),
                                   o.fc),
                               o.gamma),
                           Sub(pos, Mul(o.gamma, lam))))])

linCoupledHosc_calculate_energies(h, o, positions, lamArg) ==
  LET lam == LamOrDefault(lamArg)
  IN Collect([i \in 1..Len(positions.xs) |->
                LET pos == positions.xs[i]
                IN Add(Mul(Sub(PyFloat(1, 0), lam),
                           ene(h, o.ha, <<lam, pos>>)),
                       Mul(lam, ene(h, o.hb, <<lam, pos>>)))])

linCoupledHosc_calculate_dhdpos(h, o, positions, lamArg) ==
  LET lam == LamOrDefault(lamArg)
  IN Collect([i \in 1..Len(positions.xs) |->
                LET pos == positions.xs[i]
                IN Add(Mul(Sub(PyFloat(1, 0), lam),
                           dhdpos(h, o.ha, <<lam, pos>>)),
                       Mul(lam, dhdpos(h, o.hb, <<lam, pos>>)))])

linCoupledHosc_calculate_dhdlam(h, o, positions, lamArg) ==
  LET lam == LamOrDefault(lamArg)
  IN Collect([i \in 1..Len(positions.xs) |->
                LET pos == positions.xs[i]
                IN Sub(ene(h, o.hb, <<lam, pos>>),
                       ene(h, o.ha, <<lam, pos>>))])

\* np.exp(-self.beta * self.s * V.ene(lam, pos))
expTerm(h, o, V, lam, pos) ==
  Exp(Mul(Mul(Neg(o.beta), o.s), ene(h, V, <<lam, pos>>)))

\* lam * exp(...hb...) + (1.0 - lam) * exp(...ha...)
expDenominator(h, o, lam, pos) ==
  Add(Mul(lam, expTerm(h, o, o.hb, lam, pos)),
      Mul(Sub(PyFloat(1, 0), lam), expTerm(h, o, o.ha, lam, pos)))

expCoupledHosc_calculate_energies(h, o, positions, lamArg) ==
  LET lam == LamOrDefault(lamArg)
  IN Collect([i \in 1..Len(positions.xs) |->
                LET pos == positions.xs[i]
                IN Mul(Div(Neg(PyFloat(1, 0)), Mul(o.beta, o.s)),
                       Log(expDenominator(h, o, lam, pos)))])

expCoupledHosc_calculate_dhdpos(h, o, positions, lamArg) ==
  LET lam == LamOrDefault(lamArg)
  IN Collect([i \in 1..Len(positions.xs) |->
                LET pos == positions.xs[i]
                IN Mul(Div(PyFloat(1, 0), expDenominator(h, o, lam, pos)),
                       Add(Mul(Mul(lam, dhdpos(h, o.hb, <<lam, pos>>)),
                               expTerm(h, o, o.hb, lam, pos)),
                           Mul(Mul(Sub(PyFloat(1, 0), lam),
                                   dhdpos(h, o.ha, <<lam, pos>>)),
                               expTerm(h, o, o.ha, lam, pos))))])

expCoupledHosc_calculate_dhdlam(h, o, positions, lamArg) ==
  LET lam == LamOrDefault(lamArg)
  IN Collect([i \in 1..Len(positions.xs) |->
                LET pos == positions.xs[i]
                IN Mul(Div(Mul(Div(Neg(PyFloat(1, 0)), Mul(o.beta, o.s)),
                               PyFloat(1, 0)),
                           expDenominator(h, o, lam, pos)),
                       Sub(expTerm(h, o, o.hb, lam, pos),
                           expTerm(h, o, o.ha, lam, pos)))])

\* max(m, n) + math.log(1 + math.exp(min(m, n) - max(m, n))): the value is
\* not a dyadic rational, it is kept as the term lse(m, n)
logSumExp(m, n) ==
  IF IsErr(m) THEN m
  ELSE IF IsErr(n) THEN n
  ELSE IF ~(IsNum(m) /\ IsNum(n)) THEN Err("TypeError")
  ELSE Sym("lse", <<m, n>>)

\* [logSumExp(a, b) for a, b in zip(as, bs)]
logSumExpZip(as, bs) ==
  Collect([i \in 1..MinOf(Len(as), Len(bs)) |-> logSumExp(as[i], bs[i])])

\* [-self.s * (Vit - self.Eoff_i[state]) for Vit in self.V_is[state].ene(pos)]
envelopePart(h, o, state, pos) ==
  LET Vs == ene(h, o.V_is[state + 1], <<pos>>)
  IN IF IsErr(Vs) THEN Vs
     ELSE Collect([i \in 1..Len(Vs.xs) |->
                     LET Vit == Vs.xs[i]
                     IN Mul(Neg(o.s), Sub(Vit, o.Eoff_i.xs[state + 1]))])

\* a loop that folds sum_prefactors into partN, not partN into sum_prefactors
envelopeLoop_swapped(h, o, pos, sum_prefactors, state) ==
  IF state >= o.numStates THEN sum_prefactors
  ELSE LET partN == envelopePart(h, o, state, pos)
       IN IF IsErr(partN) THEN partN
          ELSE LET next == logSumExpZip(partN.xs, sum_prefactors.xs)
               IN IF IsErr(next) THEN next
                  ELSE envelopeLoop(h, o, pos, next, state + 1)

\* for state in range(state, self.numStates): fold partN into sum_prefactors
envelopeLoop(h, o, pos, sum_prefactors, state) ==
  IF state >= o.numStates THEN sum_prefactors
  ELSE LET partN == envelopePart(h, o, state, pos)
       IN IF IsErr(partN) THEN partN
          ELSE LET next == logSumExpZip(sum_prefactors.xs, partN.xs)
               IN IF IsErr(next) THEN next
                  ELSE envelopeLoop(h, o, pos, next, state + 1)

\* the body of the loop over positions: the value appended to Vrs
envelopeOne(h, o, pos) ==
  LET partA == envelopePart(h, o, 0, pos)
      partB == envelopePart(h, o, 1, pos)
      first == logSumExpZip(partA.xs, partB.xs)
      sum_prefactors == envelopeLoop(h, o, pos, first, 2)
  IN IF IsErr(partA) THEN partA
     ELSE IF IsErr(partB) THEN partB
     ELSE IF IsErr(first) THEN first
     ELSE IF IsErr(sum_prefactors) THEN sum_prefactors
     ELSE LET terms ==
                Collect([i \in 1..Len(sum_prefactors.xs) |->
                           LET partitionF == sum_prefactors.xs[i]
                           IN Mul(Div(PyInt(-1), BuiltinFloat(o.s)),
                                  partitionF)])
          IN IF IsErr(terms) THEN terms ELSE Sum(terms.xs)

\* a loop over positions that returns from inside its first iteration
envelopedPotential_calculate_energies_first(h, o, positions) ==
  Collect([i \in 1..MinOf(1, Len(positions.xs)) |->
             envelopeOne(h, o, positions.xs[i])])

envelopedPotential_calculate_energies(h, o, positions) ==
  Collect([i \in 1..Len(positions.xs) |-> envelopeOne(h, o, positions.xs[i])])

\* a forceTerm stub that returns an empty list
envelopedPotential_calculate_dhdpos_empty(h, o, positions) ==
  PyList(<<>>)

envelopedPotential_calculate_dhdpos(h, o, positions) ==
  Err("NotImplementedError")

IsEnvelope(o) ==
  o.cls \in {"envelopedPotential", "envelopedDoubleWellPotential"}

\* self._calculate_energies(positions[, lam=lam]) by the receiver's class
calculate_energies(h, id, positions, lamArg) ==
  LET o == h[id]
  IN CASE o.cls = "harmonicOsc1D" ->
            harmonicOsc1D_calculate_energies(o, positions)
       [] o.cls = "doubleWellPot1D" ->
            doubleWellPot1D_calculate_energies(o, positions)
       [] o.cls = "pertHarmonicOsc1D" ->
            pertHarmonicOsc1D_calculate_energies(o, positions, lamArg)
       [] o.cls = "linCoupledHosc" ->
            linCoupledHosc_calculate_energies(h, o, positions, lamArg)
       [] o.cls = "expCoupledHosc" ->
            expCoupledHosc_calculate_energies(h, o, positions, lamArg)
       [] IsEnvelope(o) ->
            envelopedPotential_calculate_energies(h, o, positions)

calculate_dhdpos(h, id, positions, lamArg) ==
  LET o == h[id]
  IN CASE o.cls = "harmonicOsc1D" ->
            harmonicOsc1D_calculate_dhdpos(o, positions)
       [] o.cls = "doubleWellPot1D" ->
            doubleWellPot1D_calculate_dhdpos(o, positions)
       [] o.cls = "pertHarmonicOsc1D" ->
            pertHarmonicOsc1D_calculate_dhdpos(o, positions, lamArg)
       [] o.cls = "linCoupledHosc" ->
            linCoupledHosc_calculate_dhdpos(h, o, positions, lamArg)
       [] o.cls = "expCoupledHosc" ->
            expCoupledHosc_calculate_dhdpos(h, o, positions, lamArg)
       [] IsEnvelope(o) ->
            envelopedPotential_calculate_dhdpos(h, o, positions)

\* potential.ene(self, positions, *kargs) and
\* perturbedPotential.ene(self, positions, lam)
ene(h, id, args) ==
  IF IsPerturbed(h[id])
  THEN IF Len(args) # 2 THEN Err("TypeError")
       ELSE LET positions == check_positions_type(args[1])
            IN IF IsErr(positions) THEN positions
               ELSE calculate_energies(h, id, positions, args[2])
  ELSE IF Len(args) < 1 THEN Err("TypeError")
       ELSE LET positions == check_positions_type(args[1])
            IN IF IsErr(positions) THEN positions
               ELSE calculate_energies(h, id, positions, Absent)

\* potential.dhdpos(self, positions, *kargs) and
\* perturbedPotential.dhdpos(self, positions, lam)
dhdpos(h, id, args) ==
  IF IsPerturbed(h[id])
  THEN IF Len(args) # 2 THEN Err("TypeError")
       ELSE LET positions == check_positions_type(args[1])
            IN IF IsErr(positions) THEN positions
               ELSE calculate_dhdpos(h, id, positions, args[2])
  ELSE IF Len(args) < 1 THEN Err("TypeError")
       ELSE LET positions == check_positions_type(args[1])
            IN IF IsErr(positions) THEN positions
               ELSE calculate_dhdpos(h, id, positions, Absent)

\* perturbedPotential.dhdlam(self, positions, lam); the classes derived from
\* potential have no such attribute
dhdlam(h, id, args) ==
  IF IsPerturbed(h[id])
  THEN IF Len(args) # 2 THEN Err("TypeError")
       ELSE LET positions == check_positions_type(args[1])
            IN IF IsErr(positions) THEN positions
               ELSE pertHarmonicOsc1D_calculate_dhdlam(h[id], positions,
                                                       args[2])
  ELSE Err("AttributeError")

----------------------------------------------------------------------------
(* Constructors.  An omitted object argument is written 0. *)

harmonicOsc1D_init(fc, x_shift, y_shift) ==
  [t |-> "object", cls |-> "harmonicOsc1D",
   fc |-> fc, x_shift |-> x_shift, y_shift |-> y_shift]

doubleWellPot1D_init(Vmax, a, b) ==
  [t |-> "object", cls |-> "doubleWellPot1D", Vmax |-> Vmax, a |-> a, b |-> b]

pertHarmonicOsc1D_init(fc, alpha, gamma) ==
  [t |-> "object", cls |-> "pertHarmonicOsc1D",
   fc |-> fc, alpha |-> alpha, gamma |-> gamma]

\* The default arguments ha=harmonicOsc1D(fc=1.0, x_shift=0.0) and
\* hb=harmonicOsc1D(fc=11.0, x_shift=0.0) of linCoupledHosc.__init__ and of
\* expCoupledHosc.__init__ are evaluated once, when the def statement runs:
\* these four objects exist from the import of the module on.
DefaultHeap ==
  << harmonicOsc1D_init(PyFloat(1, 0), PyFloat(0, 0), PyFloat(0, 0)),
     harmonicOsc1D_init(PyFloat(11, 0), PyFloat(0, 0), PyFloat(0, 0)),
     harmonicOsc1D_init(PyFloat(1, 0), PyFloat(0, 0), PyFloat(0, 0)),
     harmonicOsc1D_init(PyFloat(11, 0), PyFloat(0, 0), PyFloat(0, 0)) >>

\* the heap index of each default argument
DefaultArg == [lin_ha |-> 1, lin_hb |-> 2, exp_ha |-> 3, exp_hb |-> 4]

linCoupledHosc_init(ha, hb) ==
  [t |-> "object", cls |-> "linCoupledHosc",
   ha |-> IF ha = 0 THEN DefaultArg.lin_ha ELSE ha,
   hb |-> IF hb = 0 THEN DefaultArg.lin_hb ELSE hb]

expCoupledHosc_init(ha, hb, s, temp) ==
  [t |-> "object", cls |-> "expCoupledHosc",
   ha |-> IF ha = 0 THEN DefaultArg.exp_ha ELSE ha,
   hb |-> IF hb = 0 THEN DefaultArg.exp_hb ELSE hb,
   s |-> s,
   beta |-> Mul(Div(Sym("gas_constant", <<>>), PyFloat(1000, 0)), temp)]

\* a constructor that does not compare the length of Eoff_i with numStates
envelopedPotential_init_unchecked(cls, V_is, s, Eoff_i) ==
  LET numStates == Len(V_is)
  IN IF numStates < 2 THEN Err("IOError")
     ELSE [t |-> "object", cls |-> cls, numStates |-> numStates,
           V_is |-> V_is, s |-> s,
           Eoff_i |-> IF Eoff_i.t = "None"
                      THEN PyList([state \in 1..Len(V_is) |-> PyFloat(0, 0)])
                      ELSE Eoff_i]

\* envelopedPotential.__init__ on an instance of class cls; V_is is the
\* sequence of the sub-potentials' heap indices, Eoff_i a list or None
envelopedPotential_init(cls, V_is, s, Eoff_i) ==
  LET numStates == Len(V_is)
  IN IF numStates < 2 THEN Err("IOError")
     ELSE IF Eoff_i.t # "None" /\ Len(Eoff_i.xs) # numStates
          THEN Err("IOError")
     ELSE [t |-> "object", cls |-> cls, numStates |-> numStates,
           V_is |-> V_is, s |-> s,
           Eoff_i |-> IF Eoff_i.t = "None"
                      THEN PyList([state \in 1..Len(V_is) |-> PyFloat(0, 0)])
                      ELSE Eoff_i]

\* a constructor that builds two sub-potentials whatever the lists hold
envelopedDoubleWellPotential_init_pair(base, y_shifts, x_shifts, smoothing, fcs) ==
  LET ys == IF y_shifts.t = "None" THEN PyList(<<PyInt(0), PyInt(0)>>)
            ELSE y_shifts
      xs == IF x_shifts.t = "None" THEN PyList(<<PyInt(-1), PyInt(1)>>)
            ELSE x_shifts
      fs == IF fcs.t = "None" THEN PyList(<<PyInt(1), PyInt(1)>>) ELSE fcs
      n == MinOf(2, MinOf(Len(ys.xs), MinOf(Len(xs.xs), Len(fs.xs))))
      subs == [k \in 1..n |-> harmonicOsc1D_init(fs.xs[k], xs.xs[k], ys.xs[k])]
  IN [subs |-> subs,
      res |-> envelopedPotential_init("envelopedDoubleWellPotential",
                                      [k \in 1..n |-> base + k], smoothing,
                                      PyNone)]

\* envelopedDoubleWellPotential.__init__ with the heap holding base objects:
\* subs are the harmonicOsc1D objects it builds, res the envelope or the
\* exception of envelopedPotential.__init__
envelopedDoubleWellPotential_init(base, y_shifts, x_shifts, smoothing, fcs) ==
  LET ys == IF y_shifts.t = "None" THEN PyList(<<PyInt(0), PyInt(0)>>)
            ELSE y_shifts
      xs == IF x_shifts.t = "None" THEN PyList(<<PyInt(-1), PyInt(1)>>)
            ELSE x_shifts
      fs == IF fcs.t = "None" THEN PyList(<<PyInt(1), PyInt(1)>>) ELSE fcs
      n == MinOf(Len(ys.xs), MinOf(Len(xs.xs), Len(fs.xs)))
      subs == [k \in 1..n |-> harmonicOsc1D_init(fs.xs[k], xs.xs[k], ys.xs[k])]
  IN [subs |-> subs,
      res |-> envelopedPotential_init("envelopedDoubleWellPotential",
                                      [k \in 1..n |-> base + k], smoothing,
                                      PyNone)]

----------------------------------------------------------------------------
(* The state machine.  last records the latest operation of the caller:    *)
(* kind "new" (a constructor call; id is the new object, 0 if it raised),  *)
(* kind "call" (a public operation on object id) or "normalize".           *)
(* defaulted is the set of <<id, field>> of the composites whose ha / hb   *)
(* argument was omitted.                                                   *)

Op(kind, op, id, args, result) ==
  [kind |-> kind, op |-> op, id |-> id, args |-> args, result |-> result]

Init ==
  /\ heap = DefaultHeap
  /\ last = Op("import", "potential1D", 0, <<>>, PyNone)
  /\ defaulted = {}

\* the objects built by the caller's constructor calls
UserIds(h) == (Len(DefaultHeap) + 1)..Len(h)

\* the number of constructor calls that built h: the sub-potentials of an
\* envelopedDoubleWellPotential are built by its own constructor
RECURSIVE InnerCount(_, _)
InnerCount(h, i) ==
  IF i = 0 THEN 0
  ELSE InnerCount(h, i - 1) +
       (IF h[i].cls = "envelopedDoubleWellPotential" THEN h[i].numStates
        ELSE 0)

NumCalls(h) == Len(h) - Len(DefaultHeap) - InnerCount(h, Len(h))

\* the objects that the caller's constructor calls returned
TopIds(h) ==
  {id \in UserIds(h) :
     \A e \in UserIds(h) :
       h[e].cls = "envelopedDoubleWellPotential"
         => \A k \in 1..Len(h[e].V_is) : h[e].V_is[k] # id}

\* the harmonic oscillators the caller built
HarmonicIds(h) == {id \in TopIds(h) : h[id].cls = "harmonicOsc1D"}

Built(cls, obj, args) ==
  /\ heap' = Append(heap, obj)
  /\ last' = Op("new", cls, Len(heap) + 1, args, PyNone)

New_harmonicOsc1D(fc, x_shift, y_shift) ==
  /\ Built("harmonicOsc1D", harmonicOsc1D_init(fc, x_shift, y_shift),
           <<fc, x_shift, y_shift>>)
  /\ UNCHANGED defaulted

New_doubleWellPot1D(Vmax, a, b) ==
  /\ Built("doubleWellPot1D", doubleWellPot1D_init(Vmax, a, b), <<Vmax, a, b>>)
  /\ UNCHANGED defaulted

New_pertHarmonicOsc1D(fc, alpha, gamma) ==
  /\ Built("pertHarmonicOsc1D", pertHarmonicOsc1D_init(fc, alpha, gamma),
           <<fc, alpha, gamma>>)
  /\ UNCHANGED defaulted

Omitted(id, ha, hb) ==
  (IF ha = 0 THEN {<<id, "ha">>} ELSE {}) \cup
  (IF hb = 0 THEN {<<id, "hb">>} ELSE {})

New_linCoupledHosc(ha, hb) ==
  /\ Built("linCoupledHosc", linCoupledHosc_init(ha, hb), <<ha, hb>>)
  /\ defaulted' = defaulted \cup Omitted(Len(heap) + 1, ha, hb)

New_expCoupledHosc(ha, hb, s, temp) ==
  /\ Built("expCoupledHosc", expCoupledHosc_init(ha, hb, s, temp),
           <<ha, hb>>)
  /\ defaulted' = defaulted \cup Omitted(Len(heap) + 1, ha, hb)

New_envelopedPotential(V_is, s, Eoff_i) ==
  /\ LET res == envelopedPotential_init("envelopedPotential", V_is, s, Eoff_i)
         args == [V_is |-> V_is, s |-> s, Eoff_i |-> Eoff_i]
     IN IF IsErr(res)
        THEN /\ last' = Op("new", "envelopedPotential", 0, args, res)
             /\ UNCHANGED heap
        ELSE Built("envelopedPotential", res, args)
  /\ UNCHANGED defaulted

New_envelopedDoubleWellPotential(y_shifts, x_shifts, smoothing, fcs) ==
  /\ LET r == envelopedDoubleWellPotential_init(Len(heap), y_shifts, x_shifts,
                                                smoothing, fcs)
         args == [y_shifts |-> y_shifts, x_shifts |-> x_shifts,
                  smoothing |-> smoothing, fcs |-> fcs]
     IN IF IsErr(r.res)
        THEN /\ last' = Op("new", "envelopedDoubleWellPotential", 0, args,
                           r.res)
             /\ UNCHANGED heap
        ELSE /\ heap' = Append(heap \o r.subs, r.res)
             /\ last' = Op("new", "envelopedDoubleWellPotential",
                           Len(heap) + Len(r.subs) + 1, args, PyNone)
  /\ UNCHANGED defaulted

\* an energy call that keeps the normalised positions on the receiver
Call_ene_storing(id, args) ==
  /\ last' = Op("call", "ene", id, args, ene(heap, id, args))
  /\ heap' = [heap EXCEPT ![id] =
                [f \in DOMAIN heap[id] \cup {"positions"} |->
                   IF f = "positions" THEN check_positions_type(args[1])
                   ELSE heap[id][f]]]
  /\ UNCHANGED defaulted

Call_ene(id, args) ==
  /\ last' = Op("call", "ene", id, args, ene(heap, id, args))
  /\ UNCHANGED <<heap, defaulted>>

Call_dhdpos(id, args) ==
  /\ last' = Op("call", "dhdpos", id, args, dhdpos(heap, id, args))
  /\ UNCHANGED <<heap, defaulted>>

Call_dhdlam(id, args) ==
  /\ last' = Op("call", "dhdlam", id, args, dhdlam(heap, id, args))
  /\ UNCHANGED <<heap, defaulted>>

\* self._check_positions_type(positions) on its own
Normalize(positions) ==
  /\ last' = Op("normalize", "_check_positions_type", 0, <<positions>>,
                check_positions_type(positions))
  /\ UNCHANGED <<heap, defaulted>>

----------------------------------------------------------------------------
(* The caller's inputs *)

MaxCalls == 1

MaxCoupled == 2

MaxEnvCalls == 2

MaxStates == 3

MaxLen == 2

\* the sequences over S of length at most n
SeqsUpTo(S, n) == UNION {[1..k -> S] : k \in 0..n}

\* the non-decreasing sequences over the integers S of length at most n
Ascending(S, n) ==
  {q \in SeqsUpTo(S, n) : \A i \in 1..(Len(q) - 1) : q[i] <= q[i + 1]}

HarmonicArgs ==
  { <<PyFloat(1, 0), PyFloat(0, 0), PyFloat(0, 0)>>,
    <<PyInt(2), PyFloat(1, 0), PyFloat(1, 1)>> }

DoubleWellArgs ==
  { <<PyFloat(100, 0), PyFloat(0, 0), PyFloat(1, 1)>>,
    <<PyFloat(1, 0), PyFloat(1, 0), PyFloat(0, 0)>> }

PertArgs == { <<PyFloat(1, 0), PyFloat(10, 0), PyFloat(0, 0)>>,
              <<PyFloat(2, 0), PyFloat(1, 0), PyFloat(1, 0)>> }

\* (s, Eoff_i) of envelopedPotential
EnvelopeArgs ==
  { <<PyFloat(1, 0), PyNone>>,
    <<PyInt(2), PyList(<<PyFloat(0, 0), PyFloat(1, 0)>>)>>,
    <<PyFloat(1, 1), PyList(<<PyFloat(1, 0), PyFloat(0, 0), PyFloat(-1, 0)>>)>>,
    <<PyInt(1), PyList(<<>>)>> }

\* (y_shifts, x_shifts, smoothing, fcs) of envelopedDoubleWellPotential
DoubleWellEnvelopeArgs ==
  { <<PyNone, PyNone, PyInt(1), PyNone>>,
    <<PyList(<<PyInt(0), PyFloat(1, 1), PyInt(1)>>),
      PyList(<<PyInt(-1), PyInt(0), PyInt(2)>>), PyFloat(2, 0),
      PyList(<<PyInt(1), PyInt(2), PyInt(1)>>)>>,
    <<PyNone, PyList(<<PyInt(-2), PyInt(0), PyInt(2)>>), PyInt(1),
      PyList(<<PyInt(1), PyInt(3), PyInt(1)>>)>>,
    <<PyList(<<PyInt(0)>>), PyList(<<PyInt(1)>>), PyInt(1),
      PyList(<<PyInt(1)>>)>> }

\* positions arguments of the public operations
Positions ==
  { PyInt(2), PyStr(<<"-", "1">>), PyNone, PyList(<<>>),
    PyList(<<PyFloat(1, 0), PyInt(-2)>>),
    PyTuple(<<PyInt(0), PyStr(<<"2">>), PyFloat(3, 1)>>) }

\* positions arguments of the calls on an envelope
EnvPositions == Positions \cup { PyStr(<<"a">>) }

Lams == { PyFloat(1, 1) }

\* positions only, or positions and lam
CallArgs ==
  {<<p>> : p \in Positions} \cup {<<p, lam>> : p \in Positions, lam \in Lams}

CoupledArgs ==
  {<<p, lam>> : p \in {PyFloat(2, 0), PyList(<<>>), PyList(<<PyFloat(2, 0)>>)},
                lam \in {PyInt(0), PyInt(1), PyFloat(0, 0), PyFloat(1, 0)}}

StrChars == {"1", "2", "-", "a"}

Elems == { PyInt(1), PyFloat(1, 1), PyStr(<<"2">>), PyStr(<<"a">>), PyNone,
           PyList(<<PyInt(1)>>) }

NormInputs ==
  {PyInt(n) : n \in -2..2}
  \cup {PyFloat(m, e) : m \in {-3, 1, 4}, e \in {0, 1}}
  \cup {PyStr(cs) : cs \in SeqsUpTo(StrChars, MaxLen)}
  \cup {PyList(xs) : xs \in SeqsUpTo(Elems, MaxLen)}
  \cup {PyTuple(xs) : xs \in SeqsUpTo(Elems, MaxLen)}
  \cup {PyNone}

----------------------------------------------------------------------------
(* Spec: every class, every public operation *)

Next ==
  \/ /\ NumCalls(heap) < MaxCalls
     /\ \E a \in HarmonicArgs :
          New_harmonicOsc1D(a[1], a[2], a[3])
  \/ /\ NumCalls(heap) < MaxCalls
     /\ \E a \in DoubleWellArgs :
          New_doubleWellPot1D(a[1], a[2], a[3])
  \/ /\ NumCalls(heap) < MaxCalls
     /\ \E a \in PertArgs :
          New_pertHarmonicOsc1D(a[1], a[2], a[3])
  \/ /\ NumCalls(heap) < MaxCalls
     /\ \E ha, hb \in {0} \cup HarmonicIds(heap) :
          New_linCoupledHosc(ha, hb)
  \/ /\ NumCalls(heap) < MaxCalls
     /\ \E ha, hb \in {0} \cup HarmonicIds(heap) :
          New_expCoupledHosc(ha, hb, PyFloat(1, 0), PyFloat(300, 0))
  \/ /\ NumCalls(heap) < MaxCalls
     /\ \E V_is \in Ascending(HarmonicIds(heap), MaxStates), a \in EnvelopeArgs :
          New_envelopedPotential(V_is, a[1], a[2])
  \/ /\ NumCalls(heap) < MaxCalls
     /\ \E a \in DoubleWellEnvelopeArgs :
          New_envelopedDoubleWellPotential(a[1], a[2], a[3], a[4])
  \/ \E id \in TopIds(heap), args \in CallArgs : Call_ene(id, args)
  \/ \E id \in TopIds(heap), args \in CallArgs : Call_dhdpos(id, args)
  \/ \E id \in TopIds(heap), args \in CallArgs : Call_dhdlam(id, args)

Spec == Init /\ [][Next]_vars

(* SpecCoupled: the coupled potentials and what they are built from *)

CompositeIds(h) ==
  {id \in UserIds(h) : h[id].cls \in {"linCoupledHosc", "expCoupledHosc"}}

NextCoupled ==
  \/ /\ NumCalls(heap) < MaxCoupled
     /\ \E a \in HarmonicArgs :
          New_harmonicOsc1D(a[1], a[2], a[3])
  \/ /\ NumCalls(heap) < MaxCoupled
     /\ \E ha, hb \in {0} \cup HarmonicIds(heap) :
          New_linCoupledHosc(ha, hb)
  \/ /\ NumCalls(heap) < MaxCoupled
     /\ \E ha, hb \in {0} \cup HarmonicIds(heap) :
          New_expCoupledHosc(ha, hb, PyFloat(1, 0), PyFloat(300, 0))
  \/ \E id \in CompositeIds(heap), args \in CoupledArgs : Call_ene(id, args)
  \/ \E id \in CompositeIds(heap), args \in CoupledArgs : Call_dhdpos(id, args)

SpecCoupled == Init /\ [][NextCoupled]_vars

(* SpecEnv: the envelopes and their harmonic sub-potentials *)

EnvelopeIds(h) == {id \in UserIds(h) : IsEnvelope(h[id])}

NextEnv ==
  \/ /\ NumCalls(heap) < MaxEnvCalls
     /\ \E a \in HarmonicArgs :
          New_harmonicOsc1D(a[1], a[2], a[3])
  \/ /\ NumCalls(heap) < MaxEnvCalls
     /\ \E V_is \in Ascending(HarmonicIds(heap), MaxStates), a \in EnvelopeArgs :
          New_envelopedPotential(V_is, a[1], a[2])
  \/ /\ NumCalls(heap) < MaxEnvCalls
     /\ \E a \in DoubleWellEnvelopeArgs :
          New_envelopedDoubleWellPotential(a[1], a[2], a[3], a[4])
  \/ \E id \in EnvelopeIds(heap), p \in EnvPositions : Call_ene(id, <<p>>)
  \/ \E id \in EnvelopeIds(heap), p \in EnvPositions : Call_dhdpos(id, <<p>>)

SpecEnv == Init /\ [][NextEnv]_vars

(* SpecNorm: the input normalisation on its own *)

NextNorm == \E p \in NormInputs : Normalize(p)

SpecNorm == Init /\ [][NextNorm]_vars

----------------------------------------------------------------------------
(* Properties checked under SpecNorm *)

\* the float of an item that float() accepts
AsFloat(x) ==
  IF x.t = "int" THEN PyFloat(x.m, 0)
  ELSE IF x.t = "str" THEN ParseFloat(x.xs)
  ELSE x

\* float() accepts the item: a number or a numeric string
Convertible(x) == IsNum(x) \/ (x.t = "str" /\ ~IsErr(ParseFloat(x.xs)))

\* C5 (as the spec states it): normalisation maps an int, a float or a
\* numeric string to the one-element sequence of its float value and every
\* other input collection, a built-in list included, to the sequence of the
\* floats of its elements, same length and order: whenever it returns, it
\* returns a sequence of floats.
C5_always_floats ==
  (last.kind = "normalize" /\ ~IsErr(last.result)) =>
    LET p == last.args[1]
        r == last.result
    IN /\ r.t = "list"
       /\ \A k \in 1..Len(r.xs) : IsFloat(r.xs[k])
       /\ IF p.t \in {"list", "tuple"}
          THEN /\ Len(r.xs) = Len(p.xs)
               /\ \A k \in 1..Len(p.xs) : r.xs[k] = AsFloat(p.xs[k])
          ELSE r.xs = <<AsFloat(p)>>

\* C5 (amended): normalisation maps an int, a float or a numeric string to
\* the one-element list of its float value; it maps a collection that is not
\* a built-in list (a tuple) to the list of the floats of its elements, same
\* length and order, and raises the error of the first element float() does
\* not accept; it returns a built-in list as it is, its elements unconverted;
\* a non-numeric string raises ValueError and None raises TypeError.
C5_normalization ==
  last.kind = "normalize" =>
    LET p == last.args[1]
        r == last.result
    IN CASE p.t \in {"int", "float"} -> r = PyList(<<AsFloat(p)>>)
         [] p.t = "str" ->
              IF Convertible(p) THEN r = PyList(<<AsFloat(p)>>)
              ELSE r = Err("ValueError")
         [] p.t = "tuple" ->
              IF \A k \in 1..Len(p.xs) : Convertible(p.xs[k])
              THEN /\ r.t = "list"
                   /\ Len(r.xs) = Len(p.xs)
                   /\ \A k \in 1..Len(p.xs) :
                        IsFloat(r.xs[k]) /\ r.xs[k] = AsFloat(p.xs[k])
              ELSE LET bad == CHOOSE k \in 1..Len(p.xs) :
                                /\ ~Convertible(p.xs[k])
                                /\ \A j \in 1..(k - 1) : Convertible(p.xs[j])
                   IN r = Err(IF p.xs[bad].t = "str" THEN "ValueError"
                              ELSE "TypeError")
         [] p.t = "list" -> r = p
         [] p.t = "None" -> r = Err("TypeError")

\* a built-in list holding an int and a string came back unconverted
C5_list_unconverted ==
  /\ last.kind = "normalize"
  /\ last.args[1] = PyList(<<PyInt(1), PyStr(<<"2">>)>>)
  /\ last.result = last.args[1]

----------------------------------------------------------------------------
(* Properties checked under SpecEnv *)

\* C1: envelopedPotential(V_is, s, Eoff_i) raises IOError whenever
\* len(V_is) < 2 and whenever a list Eoff_i is given whose length is not
\* len(V_is); in every other case it returns an object with
\* numStates = len(V_is) >= 2 and len(Eoff_i) = numStates, Eoff_i all zero
\* when it was omitted; every envelope ever built keeps these invariants.
C1_envelope_construction ==
  /\ (last.kind = "new" /\ last.op = "envelopedPotential") =>
       LET a == last.args
           n == Len(a.V_is)
       IN IF n < 2 \/ (a.Eoff_i.t # "None" /\ Len(a.Eoff_i.xs) # n)
          THEN last.id = 0 /\ last.result = Err("IOError")
          ELSE /\ last.id = Len(heap)
               /\ ~IsErr(last.result)
               /\ heap[last.id].cls = "envelopedPotential"
               /\ heap[last.id].numStates = n
               /\ heap[last.id].V_is = a.V_is
               /\ heap[last.id].s = a.s
               /\ IF a.Eoff_i.t = "None"
                  THEN heap[last.id].Eoff_i.xs = [i \in 1..n |-> PyFloat(0, 0)]
                  ELSE heap[last.id].Eoff_i = a.Eoff_i
  /\ \A id \in 1..Len(heap) :
       IsEnvelope(heap[id]) =>
         /\ heap[id].numStates = Len(heap[id].V_is)
         /\ heap[id].numStates >= 2
         /\ Len(heap[id].Eoff_i.xs) = heap[id].numStates

\* an envelope of three states was built with Eoff_i omitted
C1_three_states_default_offsets ==
  /\ last.kind = "new"
  /\ last.op = "envelopedPotential"
  /\ last.id # 0
  /\ last.args.Eoff_i = PyNone
  /\ heap[last.id].numStates = 3

\* C2: the energy of an envelope of N >= 2 states is, for each position on
\* its own, -(1/s) times the left fold in index order
\* combine(...combine(combine(A_0, A_1), A_2)..., A_{N-1}) of
\* A_i = -s * (V_i.energy(pos) - Eoff_i), every state used once with its
\* own offset.
C2_left_fold ==
  (/\ last.kind = "call"
   /\ last.op = "ene"
   /\ IsEnvelope(heap[last.id])
   /\ ~IsErr(check_positions_type(last.args[1]))
   /\ \A k \in 1..Len(check_positions_type(last.args[1]).xs) :
        Convertible(check_positions_type(last.args[1]).xs[k])) =>
    LET o == heap[last.id]
        P == check_positions_type(last.args[1])
        A(i, pos) ==
          Mul(Neg(o.s),
              Sub(ene(heap, o.V_is[i + 1], <<pos>>).xs[1], o.Eoff_i.xs[i + 1]))
        RECURSIVE fold(_, _)
        fold(n, pos) ==
          IF n = 1 THEN Sym("lse", <<A(0, pos), A(1, pos)>>)
          ELSE Sym("lse", <<fold(n - 1, pos), A(n, pos)>>)
    IN last.result =
         PyList([k \in 1..Len(P.xs) |->
                   Mul(Neg(Div(PyInt(1), AsFloat(o.s))),
                       fold(o.numStates - 1, P.xs[k]))])

\* the energy of an envelope of three states with three different offsets
\* was computed at two positions
C2_three_states_two_positions ==
  /\ last.kind = "call"
  /\ last.op = "ene"
  /\ heap[last.id].cls = "envelopedPotential"
  /\ heap[last.id].numStates = 3
  /\ Cardinality({heap[last.id].Eoff_i.xs[i] : i \in 1..3}) = 3
  /\ last.result.t = "list"
  /\ Len(last.result.xs) = 2

\* C4 (as the spec states it): forceTerm on an envelope ends in
\* NotImplementedError for every positions input whatsoever.
C4_always_not_implemented ==
  (last.kind = "call" /\ last.op = "dhdpos" /\ IsEnvelope(heap[last.id])) =>
    last.result = Err("NotImplementedError")

\* C4 (amended): forceTerm on an envelope never returns normally; it ends
\* in NotImplementedError for every input the normalisation accepts, and in
\* the normalisation's own error otherwise: TypeError for an input that is
\* no number, string or iterable (None) or that holds an element float()
\* rejects by type, ValueError for a non-numeric string.
C4_never_returns ==
  (last.kind = "call" /\ last.op = "dhdpos" /\ IsEnvelope(heap[last.id])) =>
    LET p == last.args[1]
        accepted ==
          \/ p.t \in {"int", "float", "list"}
          \/ p.t = "str" /\ Convertible(p)
          \/ p.t = "tuple" /\ \A k \in 1..Len(p.xs) : Convertible(p.xs[k])
    IN /\ IsErr(last.result)
       /\ accepted <=> last.result = Err("NotImplementedError")
       /\ ~accepted => last.result \in {Err("TypeError"), Err("ValueError")}
       /\ (p.t = "str" /\ ~accepted) => last.result = Err("ValueError")
       /\ p.t = "None" => last.result = Err("TypeError")

\* forceTerm on an envelope was called with a tuple the normalisation accepts
C4_not_implemented_reached ==
  /\ last.kind = "call"
  /\ last.op = "dhdpos"
  /\ IsEnvelope(heap[last.id])
  /\ last.args[1].t = "tuple"
  /\ last.result = Err("NotImplementedError")

\* C9 (as the spec states it): a successfully built
\* envelopedDoubleWellPotential holds exactly two harmonicOsc1D
\* sub-potentials, whatever the lengths of y_shifts, x_shifts and fcs.
C9_exactly_two ==
  (last.kind = "new" /\ last.op = "envelopedDoubleWellPotential"
   /\ last.id # 0) =>
    /\ heap[last.id].numStates = 2
    /\ Len(heap[last.id].V_is) = 2

\* C9 (amended): a successfully built envelopedDoubleWellPotential holds
\* min(len(y_shifts), len(x_shifts), len(fcs)) >= 2 harmonicOsc1D
\* sub-potentials (the defaults [0, 0], [-1, 1], [1, 1] standing for an
\* omitted list), the k-th one built from x_shifts[k], y_shifts[k] and
\* fcs[k], with all energy offsets zero and s the smoothing argument; it
\* is built exactly when that minimum is at least 2.
C9_one_state_per_triple ==
  (last.kind = "new" /\ last.op = "envelopedDoubleWellPotential") =>
    LET a == last.args
        ys == IF a.y_shifts = PyNone THEN <<PyInt(0), PyInt(0)>>
              ELSE a.y_shifts.xs
        xs == IF a.x_shifts = PyNone THEN <<PyInt(-1), PyInt(1)>>
              ELSE a.x_shifts.xs
        fs == IF a.fcs = PyNone THEN <<PyInt(1), PyInt(1)>> ELSE a.fcs.xs
        n == MinOf(Len(ys), MinOf(Len(xs), Len(fs)))
    IN IF n < 2 THEN last.id = 0 /\ last.result = Err("IOError")
       ELSE /\ last.id = Len(heap)
            /\ heap[last.id].numStates = n
            /\ Len(heap[last.id].V_is) = n
            /\ \A k \in 1..n :
                 LET sub == heap[heap[last.id].V_is[k]]
                 IN /\ sub.cls = "harmonicOsc1D"
                    /\ sub.x_shift = xs[k]
                    /\ sub.y_shift = ys[k]
                    /\ sub.fc = fs[k]
            /\ \A j, k \in 1..n :
                 j # k => heap[last.id].V_is[j] # heap[last.id].V_is[k]
            /\ heap[last.id].Eoff_i = PyList([k \in 1..n |-> PyFloat(0, 0)])
            /\ heap[last.id].s = a.smoothing

\* an envelopedDoubleWellPotential was built from three lists of three
C9_three_triples ==
  /\ last.kind = "new"
  /\ last.op = "envelopedDoubleWellPotential"
  /\ last.id # 0
  /\ last.args.y_shifts # PyNone
  /\ Len(last.args.y_shifts.xs) = 3
  /\ heap[last.id].numStates = 3

----------------------------------------------------------------------------
(* Properties checked under SpecCoupled *)

\* C3 (as the spec states it): for a linCoupledHosc and every positions x,
\* energy and forceTerm called with lambda = 0 return ha.energy(x) and
\* ha.forceTerm(x), and called with lambda = 1 return hb.energy(x) and
\* hb.forceTerm(x).
C3_endpoints_reduce ==
  (/\ last.kind = "call"
   /\ heap[last.id].cls = "linCoupledHosc"
   /\ Len(last.args) = 2
   /\ last.args[2] \in {PyInt(0), PyFloat(0, 0), PyInt(1), PyFloat(1, 0)}) =>
    LET lam == last.args[2]
        sub == IF lam.m = 0 THEN heap[last.id].ha ELSE heap[last.id].hb
    IN last.result = IF last.op = "ene"
                     THEN ene(heap, sub, <<last.args[1]>>)
                     ELSE dhdpos(heap, sub, <<last.args[1]>>)

\* energy of a linCoupledHosc at the one position 2.0 with lambda = 0
\* raised TypeError
C3_type_error_reached ==
  /\ last.kind = "call"
  /\ last.op = "ene"
  /\ heap[last.id].cls = "linCoupledHosc"
  /\ last.args = <<PyList(<<PyFloat(2, 0)>>), PyInt(0)>>
  /\ last.result = Err("TypeError")

\* C10 (as the spec states it): no default ha or hb object is referenced
\* by more than one composite built with that argument omitted.
C10_fresh_defaults ==
  \A c1, c2 \in CompositeIds(heap) :
    \A f1, f2 \in {"ha", "hb"} :
      (c1 # c2 /\ <<c1, f1>> \in defaulted /\ <<c2, f2>> \in defaulted) =>
        heap[c1][f1] # heap[c2][f2]

\* two linCoupledHosc built without arguments refer to the same ha object
C10_shared_default_reached ==
  \E c1, c2 \in CompositeIds(heap) :
    /\ c1 # c2
    /\ <<c1, "ha">> \in defaulted
    /\ <<c2, "ha">> \in defaulted
    /\ heap[c1].ha = heap[c2].ha

----------------------------------------------------------------------------
(* Properties checked under Spec *)

\* C6: every public operation that returns normally returns a flat list of
\* numbers as long as the normalised positions, the element k being what
\* the same operation returns for position k alone.
C6_output_shape ==
  (last.kind = "call" /\ ~IsErr(last.result)) =>
    LET P == check_positions_type(last.args[1])
        r == last.result
        one(k) == <<PyList(<<P.xs[k]>>)>> \o Tail(last.args)
        single(k) ==
          CASE last.op = "ene" -> ene(heap, last.id, one(k))
            [] last.op = "dhdpos" -> dhdpos(heap, last.id, one(k))
            [] last.op = "dhdlam" -> dhdlam(heap, last.id, one(k))
    IN /\ r.t = "list"
       /\ P.t = "list"
       /\ Len(r.xs) = Len(P.xs)
       /\ \A k \in 1..Len(r.xs) :
            IsNum(r.xs[k]) /\ single(k) = PyList(<<r.xs[k]>>)

\* the energy of an envelope was computed for a tuple of three positions
C6_three_energies ==
  /\ last.kind = "call"
  /\ last.op = "ene"
  /\ IsEnvelope(heap[last.id])
  /\ last.args[1].t = "tuple"
  /\ last.result.t = "list"
  /\ Len(last.result.xs) = 3

\* C7 (as the spec states it): each public operation of pertHarmonicOsc1D
\* called with positions only returns what the call with lambda = 1.0
\* returns.
C7_lambda_defaults ==
  (/\ last.kind = "call"
   /\ heap[last.id].cls = "pertHarmonicOsc1D"
   /\ Len(last.args) = 1) =>
    LET args == <<last.args[1], PyFloat(1, 0)>>
    IN last.result =
         CASE last.op = "ene" -> ene(heap, last.id, args)
           [] last.op = "dhdpos" -> dhdpos(heap, last.id, args)
           [] last.op = "dhdlam" -> dhdlam(heap, last.id, args)

\* energy of a pertHarmonicOsc1D called with the position 2 only raised
\* TypeError
C7_missing_lambda_reached ==
  /\ last.kind = "call"
  /\ last.op = "ene"
  /\ heap[last.id].cls = "pertHarmonicOsc1D"
  /\ last.args = <<PyInt(2)>>
  /\ last.result = Err("TypeError")

\* C8: a call of energy, forceTerm or lambdaDerivative, successful or
\* failing, leaves every object as it is, and no later step changes an
\* object that exists: every parameter keeps the value it had right after
\* construction.
C8_calls_change_nothing ==
  [][/\ last'.kind = "call" => heap' = heap
     /\ Len(heap') >= Len(heap)
     /\ \A id \in 1..Len(heap) : heap'[id] = heap[id]]_vars

\* an energy call on an envelope failed, after the envelope and its
\* sub-potentials were built
C8_failed_call_reached ==
  /\ last.kind = "call"
  /\ last.op = "ene"
  /\ IsEnvelope(heap[last.id])
  /\ IsErr(last.result)

====
